---- MODULE Spec2Model ----
(***************************************************************************)
(* A model of jdb, an embeddable in-memory timeseries store with an        *)
(* append-only log on disk.                                                *)
(*                                                                         *)
(* The engine (type JDB) keeps four in-memory structures: the time-shards  *)
(* (measurements), the index-shards (indices), the canonical identity map  *)
(* (ids) and the field registry (measurementFields), plus the flush buffer *)
(* (saveBuffer, lastSave) and the file handle.  The disk is the sequence   *)
(* of log lines.                                                           *)
(*                                                                         *)
(* A time.Time value is modelled as [t, off]: t is the instant in ticks    *)
(* (0 is the zero time.Time), off is the offset of its location in ticks.  *)
(* The Go operator == on time.Time compares the representation (both       *)
(* fields); Before, After, Compare and IsZero compare the instant only.    *)
(* A measurement in memory carries ptr, the address of the Measurement     *)
(* object: two records with equal ptr are the same physical record.        *)
(***************************************************************************)
EXTENDS Integers, Sequences, FiniteSets, TLC

VARIABLES j, disk, now, nextPtr, faults, admitted, last, threads

vars == <<j, disk, now, nextPtr, faults, admitted, last, threads>>

(***************************************************************************)
(* Bounds of the model.                                                    *)
(***************************************************************************)
\* the number of physical records the engine holds at most
MaxRecs == 3
\* the last tick of the clock
MaxNow == 3
\* the number of failed disk writes injected at most
MaxFaults == 1
\* the number of lines of a log file given to New at most
MaxLines == 3
\* the number of concurrent callers
NumThreads == 2

(***************************************************************************)
(* Program constants, in ticks.                                            *)
(***************************************************************************)
\* ticks per hour: dtsFmt truncates to the hour
Hour == 2
\* the save buffer is flushed when it reaches this length
FlushMaxSize == 2
\* the save buffer is flushed when it is older than this
FlushMaxDuration == 1
\* UnixNano is an int64: the nanosecond count wraps modulo NsMod
NsMod == 16

DefaultIndexName == "_default_index"

ErrNone == "nil"
ErrEmptyName == "ErrEmptyName"
ErrNoDimensions == "ErrNoDimensions"
ErrFieldInUse == "ErrFieldInUse"
ErrDuplicateMeasurement == "ErrDuplicateMeasurement"
ErrNoSuchMeasurement == "ErrNoSuchMeasurement"
ErrNoSuchIndex == "ErrNoSuchIndex"
ErrIO == "ErrIO"
ErrCorrupt == "ErrCorrupt"

(***************************************************************************)
(* Maps.  A Go map is a function with a finite domain; a map whose keys    *)
(* and values are both plain data (Dimensions, Indices, Labels) is a set   *)
(* of <<key, value>> pairs with distinct keys.                             *)
(***************************************************************************)
EmptyMap == [x \in {} |-> {}]

Has(f, k) == k \in DOMAIN f

Put(f, k, v) == [x \in (DOMAIN f) \cup {k} |-> IF x = k THEN v ELSE f[x]]

Keys(pairs) == {p[1] : p \in pairs}

(***************************************************************************)
(* time.Time                                                               *)
(***************************************************************************)
W(t, off) == [t |-> t, off |-> off]

ZeroTime == W(0, 0)

IsZero(w) == w.t = 0

After(a, b) == a.t > b.t

Before(a, b) == a.t < b.t

\* a.Add(d): the location is kept
Add(a, d) == W(a.t + d, a.off)

\* time.Now(): the current instant in the local location (UTC here)
TimeNow == W(now, 0)

\* Time.UnixNano: an int64
UnixNano(w) == w.t % NsMod

(***************************************************************************)
(* Measurement                                                             *)
(***************************************************************************)
Meas(p, w, n, d, i, l) ==
    [ptr |-> p, when |-> w, name |-> n, dims |-> d, idx |-> i, lab |-> l]

\* Validate that does not look at the dimensions
Validate_noDimsCheck(m) ==
    IF m.name = "" THEN [err |-> ErrEmptyName, m |-> m]
    ELSE IF m.idx = {}
         THEN [err |-> ErrNone,
               m |-> [m EXCEPT !.idx = {<<DefaultIndexName, m.name>>}]]
         ELSE [err |-> ErrNone, m |-> m]

\* Validate that adds the default index to the indices it finds
Validate_alwaysDefault(m) ==
    IF m.name = "" THEN [err |-> ErrEmptyName, m |-> m]
    ELSE IF m.dims = {} THEN [err |-> ErrNoDimensions, m |-> m]
    ELSE [err |-> ErrNone,
          m |-> [m EXCEPT !.idx =
                    {p \in @ : p[1] # DefaultIndexName} \cup
                    {<<DefaultIndexName, m.name>>}]]

\* Validate: the error, and the measurement as Validate leaves it
Validate(m) ==
    IF m.name = "" THEN [err |-> ErrEmptyName, m |-> m]
    ELSE IF m.dims = {} THEN [err |-> ErrNoDimensions, m |-> m]
    ELSE IF m.idx = {}
         THEN [err |-> ErrNone,
               m |-> [m EXCEPT !.idx = {<<DefaultIndexName, m.name>>}]]
         ELSE [err |-> ErrNone, m |-> m]

\* dts: When formatted as date_hour in the location When carries
dts(m) == (m.when.t + m.when.off) \div Hour

\* ids: one derived ID per index entry
ids(m) == {<<m.name, p[1], p[2], UnixNano(m.when)>> : p \in m.idx}

\* fields: the kind of every field name, or ErrFieldInUse
fields(m) ==
    LET dk == Keys(m.dims)
        ik == Keys(m.idx)
        lk == Keys(m.lab)
        f  == [k \in dk \cup ik \cup lk |->
                  IF k \in dk THEN "dimension"
                  ELSE IF k \in ik THEN "index" ELSE "label"]
    IN  IF ik \cap dk # {} \/ lk \cap (dk \cup ik) # {}
        THEN [err |-> ErrFieldInUse, f |-> f]
        ELSE [err |-> ErrNone, f |-> f]

(***************************************************************************)
(* slices.SortFunc(s, by When.Compare): for the short slices of this model *)
(* the library sorts by insertion, which keeps equal elements in order.    *)
(***************************************************************************)
RECURSIVE InsertInto(_, _)
InsertInto(s, m) ==
    IF s = <<>> THEN <<m>>
    ELSE IF Before(m.when, s[Len(s)].when)
         THEN Append(InsertInto(SubSeq(s, 1, Len(s) - 1), m), s[Len(s)])
         ELSE Append(s, m)

RECURSIVE SortFunc(_)
SortFunc(s) ==
    IF s = <<>> THEN <<>>
    ELSE InsertInto(SortFunc(SubSeq(s, 1, Len(s) - 1)), s[Len(s)])

IsSorted(s) == \A i \in 1..(Len(s) - 1) : s[i].when.t <= s[i + 1].when.t

(***************************************************************************)
(* The engine: type JDB.  f is TRUE while the file handle is open.         *)
(***************************************************************************)
NewJDB(t) ==
    [f |-> TRUE, saveMutex |-> 0, saveBuffer |-> <<>>, lastSave |-> t,
     ids |-> EmptyMap,
     measurements |-> EmptyMap, indices |-> EmptyMap,
     measurementFields |-> EmptyMap]

\* m[k], or the empty map when k is not a key
Sub(f, k) == IF Has(f, k) THEN f[k] ELSE EmptyMap

\* the shard at key b, or the empty slice
Shard(f, b) == IF Has(f, b) THEN f[b] ELSE <<>>

\* addMeasurement, the index-shards: append m under every index entry
RECURSIVE addIndices(_, _, _)
addIndices(byKey, m, todo) ==
    IF todo = {} THEN byKey
    ELSE LET p  == CHOOSE q \in todo : TRUE
             bv == Sub(byKey, p[1])
             bb == Sub(bv, p[2])
             sh == Append(Shard(bb, dts(m)), m)
         IN  addIndices(Put(byKey, p[1], Put(bv, p[2], Put(bb, dts(m), sh))),
                        m, todo \ {p})

\* an IDs map that keeps the measurement an id pointed at first
addIds_keepFirst(idmap, m, idset) ==
    [k \in (DOMAIN idmap) \cup idset |-> IF Has(idmap, k) THEN idmap[k] ELSE m]

\* an IDs map that takes in one id of the measurement only
addIds_oneOnly(idmap, m, idset) ==
    LET one == IF idset = {} THEN {} ELSE {CHOOSE k \in idset : TRUE}
    IN  [k \in (DOMAIN idmap) \cup one |-> IF k \in one THEN m ELSE idmap[k]]

\* addMeasurement, the IDs map: every id points at m
addIds(idmap, m, idset) ==
    [k \in (DOMAIN idmap) \cup idset |-> IF k \in idset THEN m ELSE idmap[k]]

\* a field registry that holds the fields of the last measurement only
addFields_replace(reg, flds) == flds

\* addMeasurement, the field registry: maps.Copy(dst, fields)
addFields(reg, flds) ==
    [k \in (DOMAIN reg) \cup (DOMAIN flds) |->
        IF k \in DOMAIN flds THEN flds[k] ELSE reg[k]]

\* addMeasurement that leaves the field registry alone
addMeasurement_noRegistry(jj, m, idset, flds) ==
    LET bt == Sub(jj.measurements, m.name)
        sh == Append(Shard(bt, dts(m)), m)
    IN  [jj EXCEPT
           !.measurements = Put(jj.measurements, m.name, Put(bt, dts(m), sh)),
           !.indices = Put(jj.indices, m.name,
                           addIndices(Sub(jj.indices, m.name), m, m.idx)),
           !.ids = addIds(jj.ids, m, idset)]

\* addMeasurement that, for a known id, overwrites the time-shard in place
addMeasurement_overwrite(jj, m, idset, flds) ==
    LET bt == Sub(jj.measurements, m.name)
        sh == IF \E k \in idset : Has(jj.ids, k)
              THEN <<m>> ELSE Append(Shard(bt, dts(m)), m)
    IN  [jj EXCEPT
           !.measurements = Put(jj.measurements, m.name, Put(bt, dts(m), sh)),
           !.indices = Put(jj.indices, m.name,
                           addIndices(Sub(jj.indices, m.name), m, m.idx)),
           !.ids = addIds(jj.ids, m, idset),
           !.measurementFields =
               Put(jj.measurementFields, m.name,
                   addFields(Sub(jj.measurementFields, m.name), flds))]

\* addMeasurement adds a Measurement to the underlying fields in JDB
addMeasurement(jj, m, idset, flds) ==
    LET bt == Sub(jj.measurements, m.name)
        sh == Append(Shard(bt, dts(m)), m)
    IN  [jj EXCEPT
           !.measurements = Put(jj.measurements, m.name, Put(bt, dts(m), sh)),
           !.indices = Put(jj.indices, m.name,
                           addIndices(Sub(jj.indices, m.name), m, m.idx)),
           !.ids = addIds(jj.ids, m, idset),
           !.measurementFields =
               Put(jj.measurementFields, m.name,
                   addFields(Sub(jj.measurementFields, m.name), flds))]

\* Insert, lines 558-567: sort the shards the new Measurement landed in
RECURSIVE sortIndexShards(_, _, _)
sortIndexShards(byKey, m, todo) ==
    IF todo = {} THEN byKey
    ELSE LET p == CHOOSE q \in todo : TRUE
         IN  sortIndexShards(
                [byKey EXCEPT ![p[1]][p[2]][dts(m)] = SortFunc(@)], m, todo \ {p})

\* Insert's sorting that leaves the index-shards as the append left them
sortTouched_timeShardOnly(jj, m) ==
    [jj EXCEPT !.measurements[m.name][dts(m)] = SortFunc(@)]

sortTouched(jj, m) ==
    [jj EXCEPT
       !.measurements[m.name][dts(m)] = SortFunc(@),
       !.indices[m.name] = sortIndexShards(@, m, m.idx)]

(***************************************************************************)
(* The log.  A line is the JSON of the Measurement, base64 encoded: the    *)
(* address of the object is not part of it, and the time is written with   *)
(* its instant and the offset of its location.                             *)
(***************************************************************************)
Encode(m) ==
    [when |-> m.when, name |-> m.name, dims |-> m.dims, idx |-> m.idx,
     lab |-> m.lab]

\* decoding a line allocates a new Measurement at address p
Decode(line, p) ==
    Meas(p, line.when, line.name, line.dims, line.idx, line.lab)

\* flush that writes the newest measurement of the buffer first
flush_newestFirst(jj, dsk, failAt, t) ==
    LET n    == Len(jj.saveBuffer)
        stop == IF n = 0 THEN 0 ELSE IF ~jj.f THEN 1 ELSE failAt
        upto == IF stop = 0 THEN n ELSE stop - 1
        out  == dsk \o [i \in 1..upto |-> Encode(jj.saveBuffer[n + 1 - i])]
    IN  IF stop = 0
        THEN [j |-> [jj EXCEPT !.saveBuffer = <<>>, !.lastSave = t],
              disk |-> out, err |-> ErrNone]
        ELSE [j |-> jj, disk |-> out, err |-> ErrIO]

\* flush: failAt = 0 when every write succeeds, else the position in the
\* buffer of the record whose write fails.  Writes to a closed file fail.
flush(jj, dsk, failAt, t) ==
    LET n    == Len(jj.saveBuffer)
        stop == IF n = 0 THEN 0 ELSE IF ~jj.f THEN 1 ELSE failAt
        upto == IF stop = 0 THEN n ELSE stop - 1
        out  == dsk \o [i \in 1..upto |-> Encode(jj.saveBuffer[i])]
    IN  IF stop = 0
        THEN [j |-> [jj EXCEPT !.saveBuffer = <<>>, !.lastSave = t],
              disk |-> out, err |-> ErrNone]
        ELSE [j |-> jj, disk |-> out, err |-> ErrIO]

(***************************************************************************)
(* Options and the queries.  A query reads the engine and the clock; the   *)
(* order in which Go ranges over a map is not fixed, so shards whose first *)
(* elements have the same instant may come out in either order: a query    *)
(* has a set of possible results.                                          *)
(***************************************************************************)
\* opts is a pointer: nil is TRUE for the nil pointer
Opts(f, t, s, d) ==
    [nil |-> FALSE, from |-> f, to |-> t, since |-> s, dedup |-> d]

Nil == [nil |-> TRUE, from |-> ZeroTime, to |-> ZeroTime, since |-> 0,
        dedup |-> FALSE]

\* mRange that counts a Since back from the current time whatever To is
mRange_sinceFromNow(o, t) ==
    IF o.since > 0
    THEN [from |-> Add(t, 0 - o.since), to |-> t]
    ELSE [from |-> o.from, to |-> IF IsZero(o.to) THEN t ELSE o.to]

\* mRange: the window [from, to] of the options, at time t
mRange(o, t) ==
    IF o.since > 0
    THEN IF IsZero(o.to)
         THEN [from |-> Add(t, 0 - o.since), to |-> t]
         ELSE [from |-> Add(o.to, 0 - o.since), to |-> o.to]
    ELSE [from |-> o.from, to |-> IF IsZero(o.to) THEN t ELSE o.to]

\* the test of validMeasurements on one Measurement
inRange(m, r) ==
    /\ (m.when = r.from \/ After(m.when, r.from))
    /\ (m.when = r.to \/ Before(m.when, r.to))

\* validMeasurements: the measurements of a shard that sit within the range
validMeasurements(o, shard, t) ==
    LET r == mRange(o, t)
    IN  IF shard = <<>> THEN <<>>
        ELSE IF After(shard[1].when, r.to) \/ Before(shard[Len(shard)].when, r.from)
             THEN <<>>
             ELSE SelectSeq(shard, LAMBDA m : inRange(m, r))

\* the loop of a query without the shortcut for nil options
collect_noNilShortcut(byBucket, o, t) ==
    {validMeasurements(o, byBucket[b], t) : b \in DOMAIN byBucket} \ {<<>>}

\* the shards of a query, as the loop over the map collects them
collect(byBucket, o, t) ==
    IF o.nil THEN {byBucket[b] : b \in DOMAIN byBucket}
    ELSE {validMeasurements(o, byBucket[b], t) : b \in DOMAIN byBucket} \ {<<>>}

\* slices.SortFunc(tmpM, by the first element's When), then the flattening:
\* every order of the shards that the comparison allows
RECURSIVE flatten(_)
flatten(shards) ==
    IF shards = {} THEN {<<>>}
    ELSE UNION {{s \o rest : rest \in flatten(shards \ {s})} :
                 s \in {x \in shards :
                          \A y \in shards : x[1].when.t <= y[1].when.t}}

\* a filter that keeps a measurement equal in value to the one an id points at
Deduplicate_byValue(jj, res) ==
    SelectSeq(res, LAMBDA m :
        \E k \in ids(m) : Has(jj.ids, k) /\ Encode(jj.ids[k]) = Encode(m))

\* the deduplication filter: a measurement is kept when one of its ids
\* points, in the IDs map, at this very record
Deduplicate(jj, res) ==
    SelectSeq(res, LAMBDA m :
        \E k \in ids(m) : Has(jj.ids, k) /\ jj.ids[k].ptr = m.ptr)

finish(jj, o, results) ==
    IF ~o.nil /\ o.dedup THEN {Deduplicate(jj, r) : r \in results}
    ELSE results

QueryAllErr(jj, name) ==
    IF Has(jj.measurements, name) THEN ErrNone ELSE ErrNoSuchMeasurement

\* QueryAll: the possible results (none when it fails)
QueryAll(jj, name, o, t) ==
    IF ~Has(jj.measurements, name) THEN {}
    ELSE finish(jj, o, flatten(collect(jj.measurements[name], o, t)))

QueryAllIndexErr(jj, name, index) ==
    IF ~Has(jj.indices, name) THEN ErrNoSuchMeasurement
    ELSE IF ~Has(jj.indices[name], index) THEN ErrNoSuchIndex
    ELSE ErrNone

\* QueryAllIndex that treats an unused index value as an unknown index
QueryAllIndex_unknownValueFails(jj, name, index, indexValue, o, t) ==
    IF QueryAllIndexErr(jj, name, index) # ErrNone THEN {}
    ELSE IF ~Has(jj.indices[name][index], indexValue) THEN {}
    ELSE finish(jj, o,
            flatten(collect(jj.indices[name][index][indexValue], o, t)))

\* QueryAllIndex: the possible results (none when it fails)
QueryAllIndex(jj, name, index, indexValue, o, t) ==
    IF QueryAllIndexErr(jj, name, index) # ErrNone THEN {}
    ELSE IF ~Has(jj.indices[name][index], indexValue) THEN {<<>>}
    ELSE finish(jj, o,
            flatten(collect(jj.indices[name][index][indexValue], o, t)))

QueryFieldsErr(jj, name) ==
    IF Has(jj.measurementFields, name) THEN ErrNone ELSE ErrNoSuchMeasurement

\* QueryFields: the field names, in no fixed order
QueryFields(jj, name) ==
    IF Has(jj.measurementFields, name)
    THEN DOMAIN jj.measurementFields[name] ELSE {}

(***************************************************************************)
(* The callers' measurements.                                              *)
(***************************************************************************)
Names == {"a", "b"}

\* one series, one instant: the same and overlapping identities
InputsIdentity ==
    {Meas(0, W(2, 0), "a", {<<"x", 1>>}, {<<"k", "u">>}, {}),
     Meas(0, W(2, 0), "a", {<<"x", 2>>}, {<<"k", "u">>}, {}),
     Meas(0, W(2, 0), "a", {<<"x", 2>>}, {<<"k", "u">>, <<"j", "u">>}, {})}

\* no index, several instants and locations
InputsTime ==
    {Meas(0, w, "a", {<<"x", 1>>}, {}, {}) :
        w \in {W(1, Hour), W(2, Hour), W(3, 0)}}

\* another series, with a label
InputsOther == {Meas(0, W(2, 0), "b", {<<"x", 1>>}, {}, {<<"l", "v">>})}

\* measurements Validate or fields reject
InputsInvalid ==
    {Meas(0, W(2, 0), "", {<<"x", 1>>}, {}, {}),
     Meas(0, W(2, 0), "a", {}, {<<"k", "u">>}, {}),
     Meas(0, W(2, 0), "a", {<<"x", 1>>}, {<<"x", "u">>}, {}),
     Meas(0, W(2, 0), "a", {<<"x", 1>>}, {<<"k", "u">>}, {<<"k", "l">>})}

Inputs == InputsIdentity \cup InputsTime \cup InputsOther \cup InputsInvalid

(***************************************************************************)
(* The records the engine holds.                                           *)
(***************************************************************************)
RECURSIVE SeqSum(_, _)
SeqSum(f, S) ==
    IF S = {} THEN 0
    ELSE LET x == CHOOSE y \in S : TRUE IN Len(f[x]) + SeqSum(f, S \ {x})

\* the number of entries of the time-shards
NumStored(jj) ==
    LET all == {<<n, b>> : n \in DOMAIN jj.measurements, b \in 0..(MaxNow + Hour)}
        in  == {p \in all : Has(jj.measurements[p[1]], p[2])}
        f   == [p \in in |-> jj.measurements[p[1]][p[2]]]
    IN  SeqSum(f, in)

Range(s) == {s[i] : i \in 1..Len(s)}

\* the physical records of the time-shards
Stored(jj) ==
    UNION {UNION {Range(jj.measurements[n][b]) : b \in DOMAIN jj.measurements[n]} :
             n \in DOMAIN jj.measurements}

\* what a caller may pass: a new Measurement, or one it passed before
Args == {[m EXCEPT !.ptr = nextPtr] : m \in Inputs} \cup Stored(j)

(***************************************************************************)
(* History: last is the call that has just returned, its result and the    *)
(* measurement it was given (as Validate left it), until the caller takes  *)
(* the result (Return); admitted is the set of series names of the         *)
(* measurements the engine has taken in.                                   *)
(***************************************************************************)
NoArg == Meas(0, ZeroTime, "", {}, {}, {})

Last(op, err, m) == [op |-> op, err |-> err, arg |-> m]

Idle == Last("idle", ErrNone, NoArg)

(***************************************************************************)
(* Concurrent callers.  threads[t] is the call thread t is in: the         *)
(* operation, its Measurement, the line of the code it has reached (pc),   *)
(* the error it is about to return, and pre, the engine as it was when the *)
(* thread took the lock.  j.saveMutex is 0 when the mutex is free, else    *)
(* the thread that holds it.  In Spec every call runs alone and at once:   *)
(* threads does not change.                                                *)
(***************************************************************************)
Threads == 1..NumThreads

NoCall ==
    [pc |-> "idle", op |-> "none", m |-> NoArg, err |-> ErrNone,
     pre |-> NewJDB(ZeroTime)]

NoThreads == [t \in Threads |-> NoCall]

(***************************************************************************)
(* Initial state: New on a path where no file exists.                      *)
(***************************************************************************)
Init ==
    /\ now = 1
    /\ j = NewJDB(W(1, 0))
    /\ disk = <<>>
    /\ nextPtr = 1
    /\ faults = 0
    /\ admitted = {}
    /\ last = Last("New", ErrNone, NoArg)
    /\ threads = NoThreads

\* the positions at which a flush of n records may fail
FailAts(n) == IF faults < MaxFaults THEN 0..n ELSE {0}

\* a flush policy that waits for the buffer to exceed its size
flushDue_aboveSize(jj, t) ==
    \/ Len(jj.saveBuffer) > FlushMaxSize
    \/ After(t, Add(jj.lastSave, FlushMaxDuration))

\* Insert, lines 569-578: flush when the buffer is full or old
flushDue(jj, t) ==
    \/ Len(jj.saveBuffer) >= FlushMaxSize
    \/ After(t, Add(jj.lastSave, FlushMaxDuration))

\* the state after a call that touched the engine and maybe flushed
Finish(jj, failAt, op, m) ==
    /\ admitted' = admitted \cup {m.name}
    /\ IF flushDue(jj, TimeNow)
       THEN LET r == flush(jj, disk, failAt, TimeNow)
            IN  /\ j' = r.j
                /\ disk' = r.disk
                /\ faults' = IF jj.f /\ failAt > 0 THEN faults + 1 ELSE faults
                /\ last' = Last(op, r.err, m)
       ELSE /\ failAt = 0
            /\ j' = jj
            /\ last' = Last(op, ErrNone, m)
            /\ UNCHANGED <<disk, faults>>

\* a call that returns an error before it touches the engine
Reject(op, err, m) ==
    /\ last' = Last(op, err, m)
    /\ UNCHANGED <<j, disk, nextPtr, faults, now, admitted, threads>>

\* Insert that does not look the ids up
Insert_noDupCheck(m0, failAt) ==
    LET v == Validate(m0)
        m == v.m
        f == fields(m)
    IN  j.f /\ last = Idle /\
        IF v.err # ErrNone THEN failAt = 0 /\ Reject("Insert", v.err, m)
        ELSE IF f.err # ErrNone THEN failAt = 0 /\ Reject("Insert", f.err, m)
        ELSE /\ NumStored(j) < MaxRecs
             /\ LET j1 == addMeasurement(j, m, ids(m), f.f)
                    j2 == [j1 EXCEPT !.saveBuffer = Append(@, m)]
                    j3 == sortTouched(j2, m)
                IN  Finish(j3, failAt, "Insert", m)
             /\ nextPtr' = IF m.ptr = nextPtr THEN nextPtr + 1 ELSE nextPtr
             /\ UNCHANGED <<now, threads>>

\* Insert a Measurement into the database
Insert(m0, failAt) ==
    LET v == Validate(m0)
        m == v.m
        f == fields(m)
    IN  j.f /\ last = Idle /\
        IF v.err # ErrNone THEN failAt = 0 /\ Reject("Insert", v.err, m)
        ELSE IF \E id \in ids(m) : Has(j.ids, id)
             THEN failAt = 0 /\ Reject("Insert", ErrDuplicateMeasurement, m)
        ELSE IF f.err # ErrNone THEN failAt = 0 /\ Reject("Insert", f.err, m)
        ELSE /\ NumStored(j) < MaxRecs
             /\ LET j1 == addMeasurement(j, m, ids(m), f.f)
                    j2 == [j1 EXCEPT !.saveBuffer = Append(@, m)]
                    j3 == sortTouched(j2, m)
                IN  Finish(j3, failAt, "Insert", m)
             /\ nextPtr' = IF m.ptr = nextPtr THEN nextPtr + 1 ELSE nextPtr
             /\ UNCHANGED <<now, threads>>

\* Upsert: Insert without the check of the IDs map
Upsert(m0, failAt) ==
    LET v == Validate(m0)
        m == v.m
        f == fields(m)
    IN  j.f /\ last = Idle /\
        IF v.err # ErrNone THEN failAt = 0 /\ Reject("Upsert", v.err, m)
        ELSE IF f.err # ErrNone THEN failAt = 0 /\ Reject("Upsert", f.err, m)
        ELSE /\ NumStored(j) < MaxRecs
             /\ LET j1 == addMeasurement(j, m, ids(m), f.f)
                    j2 == [j1 EXCEPT !.saveBuffer = Append(@, m)]
                    j3 == sortTouched(j2, m)
                IN  Finish(j3, failAt, "Upsert", m)
             /\ nextPtr' = IF m.ptr = nextPtr THEN nextPtr + 1 ELSE nextPtr
             /\ UNCHANGED <<now, threads>>

\* Close that closes the file whatever the flush returned
Close_releaseOnError(failAt) ==
    LET r == flush(j, disk, failAt, TimeNow)
    IN  /\ j.f
        /\ last = Idle
        /\ disk' = r.disk
        /\ faults' = IF j.f /\ Len(j.saveBuffer) > 0 /\ failAt > 0
                     THEN faults + 1 ELSE faults
        /\ j' = [r.j EXCEPT !.f = FALSE]
        /\ last' = Last("Close", r.err, NoArg)
        /\ UNCHANGED <<now, nextPtr, admitted, threads>>

\* Close a JDB, flushing contents to disk
Close(failAt) ==
    LET r == flush(j, disk, failAt, TimeNow)
    IN  /\ j.f
        /\ last = Idle
        /\ disk' = r.disk
        /\ faults' = IF j.f /\ Len(j.saveBuffer) > 0 /\ failAt > 0
                     THEN faults + 1 ELSE faults
        /\ IF r.err # ErrNone
           THEN j' = r.j /\ last' = Last("Close", r.err, NoArg)
           ELSE /\ j' = [r.j EXCEPT !.f = FALSE]
                /\ last' = Last("Close", IF j.f THEN ErrNone ELSE ErrIO, NoArg)
        /\ UNCHANGED <<now, nextPtr, admitted, threads>>

\* New that sorts the time-shards and leaves the index-shards as replayed
sortAll_timeShardsOnly(jj) ==
    [jj EXCEPT
       !.measurements =
           [n \in DOMAIN @ |-> [b \in DOMAIN @[n] |-> SortFunc(@[n][b])]]]

\* New, lines 463-491: sort every shard
sortAll(jj) ==
    [jj EXCEPT
       !.measurements =
           [n \in DOMAIN @ |-> [b \in DOMAIN @[n] |-> SortFunc(@[n][b])]],
       !.indices =
           [n \in DOMAIN @ |-> [k \in DOMAIN @[n] |-> [v \in DOMAIN @[n][k] |->
               [b \in DOMAIN @[n][k][v] |-> SortFunc(@[n][k][v][b])]]]]]

\* a replay that puts every record it reads into the save buffer as well
RECURSIVE replay_intoBuffer(_, _, _)
replay_intoBuffer(jj, lines, i) ==
    IF i > Len(lines) THEN jj
    ELSE LET m  == Decode(lines[i], i)
             j1 == addMeasurement(jj, m, ids(m), fields(m).f)
         IN  replay_intoBuffer([j1 EXCEPT !.saveBuffer = Append(@, m)],
                               lines, i + 1)

\* New, lines 429-456: every line of the file, in order
RECURSIVE replay(_, _, _)
replay(jj, lines, i) ==
    IF i > Len(lines) THEN jj
    ELSE LET m == Decode(lines[i], i)
         IN  replay(addMeasurement(jj, m, ids(m), fields(m).f), lines, i + 1)

\* lines that are not the encoding of a Measurement: not base64, or base64
\* of something that is not the JSON of a Measurement
BadBase64 == [bad |-> "base64"]

BadJSON == [bad |-> "json"]

\* the JSON of a Measurement with other bytes after it, base64 encoded: the
\* json.Decoder reads the first value and leaves the rest
Trailing(line) ==
    [when |-> line.when, name |-> line.name, dims |-> line.dims,
     idx |-> line.idx, lab |-> line.lab, junk |-> TRUE]

\* New, lines 435-446: the error of decoding a line
DecodeErr(line) == IF "bad" \in DOMAIN line THEN ErrCorrupt ELSE ErrNone

\* the first line that does not decode, 0 when every line does
FirstBad(lines) ==
    LET B == {i \in 1..Len(lines) : DecodeErr(lines[i]) # ErrNone}
    IN  IF B = {} THEN 0 ELSE CHOOSE i \in B : \A k \in B : i <= k

\* New that drops the lines it cannot decode
Open_skipBad(lines, canOpen, t) ==
    IF ~canOpen THEN [j |-> [NewJDB(t) EXCEPT !.f = FALSE], err |-> ErrIO]
    ELSE [j |-> sortAll(replay(NewJDB(t),
                    SelectSeq(lines, LAMBDA l : DecodeErr(l) = ErrNone), 1)),
          err |-> ErrNone]

\* New, as a function of the file: the *JDB and the error it returns.  The
\* JDB is allocated before the file is opened and is returned on every path.
Open(lines, canOpen, t) ==
    IF ~canOpen THEN [j |-> [NewJDB(t) EXCEPT !.f = FALSE], err |-> ErrIO]
    ELSE LET b == FirstBad(lines)
         IN  IF b = 0
             THEN [j |-> sortAll(replay(NewJDB(t), lines, 1)), err |-> ErrNone]
             ELSE [j |-> replay(NewJDB(t), SubSeq(lines, 1, b - 1), 1),
                   err |-> ErrCorrupt]

\* New returns a JDB from a database file on disk
New ==
    /\ ~j.f
    /\ last = Idle
    /\ j' = Open(disk, TRUE, TimeNow).j
    /\ nextPtr' = Len(disk) + 1
    /\ admitted' = {disk[i].name : i \in 1..Len(disk)}
    /\ last' = Last("New", Open(disk, TRUE, TimeNow).err, NoArg)
    /\ UNCHANGED <<disk, now, faults, threads>>

\* a clock with a timer that flushes a buffer grown old
Tick_backgroundFlush ==
    LET r == flush(j, disk, 0, W(now + 1, 0))
    IN  /\ last = Idle
        /\ now < MaxNow
        /\ now' = now + 1
        /\ IF flushDue(j, W(now + 1, 0))
           THEN j' = r.j /\ disk' = r.disk
           ELSE UNCHANGED <<j, disk>>
        /\ UNCHANGED <<nextPtr, faults, admitted, last, threads>>

\* the clock
Tick ==
    /\ last = Idle
    /\ now < MaxNow
    /\ now' = now + 1
    /\ UNCHANGED <<j, disk, nextPtr, faults, admitted, last, threads>>

\* the caller takes the result of its call
Return ==
    /\ last # Idle
    /\ last' = Idle
    /\ UNCHANGED <<j, disk, now, nextPtr, faults, admitted, threads>>

Next ==
    \/ \E m \in Args : \E failAt \in FailAts(Len(j.saveBuffer) + 1) :
           Insert(m, failAt)
    \/ \E m \in Args : \E failAt \in FailAts(Len(j.saveBuffer) + 1) :
           Upsert(m, failAt)
    \/ \E failAt \in FailAts(Len(j.saveBuffer)) : Close(failAt)
    \/ New
    \/ Tick
    \/ Return

Spec == Init /\ [][Next]_vars

(***************************************************************************)
(* The queries the properties range over.                                  *)
(***************************************************************************)
ZeroOpts == Opts(ZeroTime, ZeroTime, 0, FALSE)

DedupOpts == Opts(ZeroTime, ZeroTime, 0, TRUE)

WindowBounds == {ZeroTime, W(2, 0)}

QueryOpts ==
    {Nil} \cup {Opts(f, t, s, d) :
                  f \in WindowBounds, t \in WindowBounds, s \in {0, 1},
                  d \in BOOLEAN}

QueryNames == Names \cup {""}

IndexPairs == {<<"k", "u">>, <<"k", "w">>, <<"j", "u">>} \cup
              {<<DefaultIndexName, n>> : n \in Names}

\* a record as data: the address of the object left out
Values(res) == [i \in 1..Len(res) |-> Encode(res[i])]

\* the number of elements of a result that are equal, as data, to m
CountEqual(res, m) == Cardinality({i \in 1..Len(res) : Encode(res[i]) = Encode(m)})

\* the records of a series the engine holds
StoredIn(jj, name) == {r \in Stored(jj) : r.name = name}

(***************************************************************************)
(* C1: after a strict Insert of a valid measurement m has succeeded,       *)
(* QueryAll(m.name) with no options succeeds and every result it may       *)
(* return holds exactly one record equal to m.                             *)
(***************************************************************************)
C1_InsertThenQueryAll ==
    (last.op = "Insert" /\ last.err = ErrNone) =>
        /\ QueryAllErr(j, last.arg.name) = ErrNone
        /\ QueryAll(j, last.arg.name, Nil, TimeNow) # {}
        /\ \A res \in QueryAll(j, last.arg.name, Nil, TimeNow) :
               CountEqual(res, last.arg) = 1

\* a successful Insert into a series that already holds two records
C1_Witness ==
    /\ last.op = "Insert"
    /\ last.err = ErrNone
    /\ Cardinality(StoredIn(j, last.arg.name)) = 3

(***************************************************************************)
(* C5: every result of QueryAll and of QueryAllIndex, with any options, is *)
(* non-decreasing by timestamp.                                            *)
(***************************************************************************)
C5_ResultsSorted ==
    \A n \in Names : \A o \in QueryOpts :
        /\ \A res \in QueryAll(j, n, o, TimeNow) : IsSorted(res)
        /\ \A p \in IndexPairs :
               \A res \in QueryAllIndex(j, n, p[1], p[2], o, TimeNow) :
                   IsSorted(res)

(***************************************************************************)
(* C2: a strict Insert of a measurement that passes Validate and shares    *)
(* its name, its instant and one index entry with a record of the store    *)
(* returns ErrDuplicateMeasurement and changes neither the engine nor the  *)
(* file (so every query answers as before).                                *)
(***************************************************************************)
SharesIdentity(jj, m) ==
    \E r \in Stored(jj) :
        r.name = m.name /\ r.when.t = m.when.t /\ r.idx \cap m.idx # {}

C2_DuplicateRejected ==
    [][(/\ last = Idle
        /\ last'.op = "Insert"
        /\ Validate(last'.arg).err = ErrNone
        /\ SharesIdentity(j, last'.arg))
       => (/\ last'.err = ErrDuplicateMeasurement
           /\ UNCHANGED <<j, disk, admitted>>)]_vars

\* a rejected Insert one of whose index entries no record of the store has
C2_Witness ==
    /\ last.op = "Insert"
    /\ last.err = ErrDuplicateMeasurement
    /\ \E p \in last.arg.idx : \A r \in Stored(j) : p \notin r.idx

(***************************************************************************)
(* C3: when every record of a series shares one identity key and no two    *)
(* have the same dimensions, then after an Upsert a deduplicated QueryAll  *)
(* returns exactly one record, with the dimensions of that last Upsert.    *)
(***************************************************************************)
SharedKey(jj, name) ==
    \E r0 \in StoredIn(jj, name) : \E k \in ids(r0) :
        \A r \in StoredIn(jj, name) : k \in ids(r)

\* no two entries of the series have the same dimensions
DistinctDims(jj, name) ==
    /\ \A r1, r2 \in StoredIn(jj, name) : r1.dims = r2.dims => r1 = r2
    /\ \A res \in QueryAll(jj, name, Nil, ZeroTime) :
           Len(res) = Cardinality(StoredIn(jj, name))

C3_UpsertDedupOne ==
    (/\ last.op = "Upsert"
     /\ last.err = ErrNone
     /\ SharedKey(j, last.arg.name)
     /\ DistinctDims(j, last.arg.name))
    => /\ QueryAll(j, last.arg.name, DedupOpts, TimeNow) # {}
       /\ \A res \in QueryAll(j, last.arg.name, DedupOpts, TimeNow) :
              Len(res) = 1 /\ res[1].dims = last.arg.dims

(***************************************************************************)
(* C4: an Upsert never returns ErrDuplicateMeasurement, and an Upsert of a *)
(* measurement that passes Validate and fields adds one entry to the       *)
(* time-shards of its series and to the index-shards of each of its index  *)
(* entries: QueryAll and QueryAllIndex without options return one record   *)
(* more than before, whatever identity the measurement shares.             *)
(***************************************************************************)
\* the length of the results of a query (0 when it fails)
Size(results) == IF results = {} THEN 0 ELSE Len(CHOOSE r \in results : TRUE)

C4_UpsertAppends ==
    [][(last = Idle /\ last'.op = "Upsert")
       => LET m == last'.arg
          IN  /\ last'.err # ErrDuplicateMeasurement
              /\ (Validate(m).err = ErrNone /\ fields(m).err = ErrNone)
                 => /\ last'.err \in {ErrNone, ErrIO}
                    /\ \A res \in QueryAll(j', m.name, Nil, TimeNow) :
                          Len(res) = Size(QueryAll(j, m.name, Nil, TimeNow)) + 1
                    /\ QueryAll(j', m.name, Nil, TimeNow) # {}
                    /\ \A p \in m.idx :
                        \A res \in QueryAllIndex(j', m.name, p[1], p[2], Nil, TimeNow) :
                          Len(res) =
                            Size(QueryAllIndex(j, m.name, p[1], p[2], Nil, TimeNow)) + 1]_vars

\* the third Upsert of three that share one identity key
C4_Witness ==
    /\ last.op = "Upsert"
    /\ last.err = ErrNone
    /\ SharedKey(j, last.arg.name)
    /\ \A res \in QueryAll(j, last.arg.name, Nil, TimeNow) : Len(res) = 3
    /\ QueryAll(j, last.arg.name, Nil, TimeNow) # {}

(***************************************************************************)
(* C6: New after a successful Close answers every query as the closed      *)
(* engine did: QueryAll and QueryAllIndex, without options and with        *)
(* deduplication, return the same records in the same order, and           *)
(* QueryFields the same names.                                             *)
(***************************************************************************)
Answers(jj, t) ==
    [n \in QueryNames |->
       [all    |-> [o \in {Nil, DedupOpts} |->
                      {Values(r) : r \in QueryAll(jj, n, o, t)}],
        index  |-> [p \in IndexPairs |-> [o \in {Nil, DedupOpts} |->
                      {Values(r) : r \in QueryAllIndex(jj, n, p[1], p[2], o, t)}]],
        fields |-> QueryFields(jj, n),
        errs   |-> <<QueryAllErr(jj, n), QueryFieldsErr(jj, n)>>]]

C6_RoundTrip ==
    [][(~j.f /\ j'.f) => Answers(j', W(now', 0)) = Answers(j, W(now, 0))]_vars

(***************************************************************************)
(* C7: a QueryAll with a window returns exactly the records of the result  *)
(* without options whose instant t satisfies from <= t <= to, in the same  *)
(* order, where [from, to] is the window of the options.                   *)
(***************************************************************************)
InWindow(m, r) == r.from.t <= m.when.t /\ m.when.t <= r.to.t

C7_WindowExact ==
    \A n \in Names : \A o \in QueryOpts :
        (~o.nil /\ ~o.dedup) =>
            QueryAll(j, n, o, TimeNow) =
                {SelectSeq(base, LAMBDA m : InWindow(m, mRange(o, TimeNow))) :
                    base \in QueryAll(j, n, Nil, TimeNow)}

(***************************************************************************)
(* C9: a query with nil options returns what the same query returns with   *)
(* all-zero options, for QueryAll and for QueryAllIndex.                   *)
(***************************************************************************)
C9_NilIsZeroOptions ==
    \A n \in QueryNames :
        /\ QueryAll(j, n, Nil, TimeNow) = QueryAll(j, n, ZeroOpts, TimeNow)
        /\ \A p \in IndexPairs :
               QueryAllIndex(j, n, p[1], p[2], Nil, TimeNow) =
                   QueryAllIndex(j, n, p[1], p[2], ZeroOpts, TimeNow)

(***************************************************************************)
(* C10: QueryAll, QueryAllIndex and QueryFields fail with                  *)
(* ErrNoSuchMeasurement for a name exactly when the engine has taken in no *)
(* measurement of that name; otherwise QueryAll and QueryFields succeed    *)
(* and QueryAllIndex fails at most with ErrNoSuchIndex.                    *)
(***************************************************************************)
IndexKeys == {p[1] : p \in IndexPairs}

C10_SeriesExistenceAgrees ==
    \A n \in QueryNames :
        IF n \in admitted
        THEN /\ QueryAllErr(j, n) = ErrNone
             /\ QueryFieldsErr(j, n) = ErrNone
             /\ \A k \in IndexKeys :
                    QueryAllIndexErr(j, n, k) \in {ErrNone, ErrNoSuchIndex}
        ELSE /\ QueryAllErr(j, n) = ErrNoSuchMeasurement
             /\ QueryFieldsErr(j, n) = ErrNoSuchMeasurement
             /\ \A k \in IndexKeys :
                    QueryAllIndexErr(j, n, k) = ErrNoSuchMeasurement

\* one series known and one unknown, after an ingestion and after a replay
C10_Witness ==
    /\ admitted = {"a"}
    /\ last.op \in {"Insert", "Upsert", "New"}
    /\ NumStored(j) >= 2

(***************************************************************************)
(* The window of the options as a function of its own: SpecRange applies   *)
(* mRange to every options value at every time of the clock.               *)
(***************************************************************************)
RangeTimes == {ZeroTime, W(1, 0), W(2, Hour)}

RangeOpts ==
    {Opts(f, t, s, d) :
        f \in RangeTimes, t \in RangeTimes, s \in {0 - 1, 0, 1, 2}, d \in BOOLEAN}

InitRange ==
    /\ now \in 1..MaxNow
    /\ j = NewJDB(ZeroTime)
    /\ disk = <<>>
    /\ nextPtr = 1
    /\ faults = 0
    /\ admitted = {}
    /\ last = [op |-> "idle"]
    /\ threads = NoThreads

CallRange(o) ==
    /\ last' = [op |-> "mRange", opts |-> o, t |-> TimeNow,
                r |-> mRange(o, TimeNow)]
    /\ UNCHANGED <<j, disk, now, nextPtr, faults, admitted, threads>>

NextRange == \E o \in RangeOpts : CallRange(o)

SpecRange == InitRange /\ [][NextRange]_vars

\* to if set, else the current time
ToOrNow(o, t) == IF IsZero(o.to) THEN t ELSE o.to

UsesKey(jj, n, k) == \E r \in StoredIn(jj, n) : k \in Keys(r.idx)

UsesPair(jj, n, p) == \E r \in StoredIn(jj, n) : p \in r.idx

C11_IndexLookup ==
    \A n \in Names : Has(j.measurements, n) =>
        \A p \in IndexPairs :
            IF ~UsesKey(j, n, p[1])
            THEN /\ QueryAllIndexErr(j, n, p[1]) = ErrNoSuchIndex
                 /\ QueryAllIndex(j, n, p[1], p[2], Nil, TimeNow) = {}
            ELSE ~UsesPair(j, n, p) =>
                 /\ QueryAllIndexErr(j, n, p[1]) = ErrNone
                 /\ \A o \in {Nil, ZeroOpts, DedupOpts} :
                        QueryAllIndex(j, n, p[1], p[2], o, TimeNow) = {<<>>}

\* series "a" has the key k but not the value w, and has not the key j
C11_Witness ==
    /\ UsesKey(j, "a", "k")
    /\ ~UsesKey(j, "a", "j")
    /\ QueryAllIndexErr(j, "a", "j") = ErrNoSuchIndex
    /\ QueryAllIndex(j, "a", "k", "w", Nil, TimeNow) = {<<>>}

(***************************************************************************)
(* C12: Insert and Upsert return ErrEmptyName for a measurement without a  *)
(* name and ErrNoDimensions for a named measurement without dimensions,    *)
(* and change neither the engine nor the file; no record the engine holds  *)
(* has an empty name or no dimensions.                                     *)
(***************************************************************************)
C12_InvalidRejected ==
    [][/\ (last = Idle /\ last'.op \in {"Insert", "Upsert"}) =>
            /\ last'.arg.name = "" =>
                  /\ last'.err = ErrEmptyName
                  /\ UNCHANGED <<j, disk, admitted>>
            /\ (last'.arg.name # "" /\ last'.arg.dims = {}) =>
                  /\ last'.err = ErrNoDimensions
                  /\ UNCHANGED <<j, disk, admitted>>
       /\ \A r \in Stored(j') : r.name # "" /\ r.dims # {}]_vars

\* an Upsert without dimensions, rejected by an engine that holds records
C12_Witness ==
    /\ last.op = "Upsert"
    /\ last.err = ErrNoDimensions
    /\ NumStored(j) >= 1

(***************************************************************************)
(* C13: Insert and Upsert of a measurement that passes Validate and uses   *)
(* one field name in two of dimensions, indices and labels return          *)
(* ErrFieldInUse and change neither the engine nor the file.               *)
(***************************************************************************)
C13_CollisionRejected ==
    [][(/\ last = Idle
        /\ last'.op \in {"Insert", "Upsert"}
        /\ Validate(last'.arg).err = ErrNone
        /\ fields(last'.arg).err # ErrNone)
       => (/\ last'.err = ErrFieldInUse
           /\ UNCHANGED <<j, disk, admitted>>)]_vars

(***************************************************************************)
(* C18: after a Close that returns no error the file is released, the save *)
(* buffer is empty and every record the engine holds has its line in the   *)
(* file; after a Close whose flush failed the file is still held.          *)
(***************************************************************************)
C18_CloseFlushesFirst ==
    last.op = "Close" =>
        IF last.err = ErrNone
        THEN /\ ~j.f
             /\ j.saveBuffer = <<>>
             /\ \A r \in Stored(j) : Encode(r) \in Range(disk)
        ELSE j.f /\ j.saveBuffer # <<>>

\* a Close that wrote the records of the buffer
C18_Witness ==
    /\ last.op = "Close"
    /\ last.err = ErrNone
    /\ NumStored(j) >= 1
    /\ Len(disk) = NumStored(j)

(***************************************************************************)
(* C19: an Insert or Upsert that returns an error, whatever the error,     *)
(* leaves time-shards, index-shards, ids map and field registry as they    *)
(* were before the call.                                                   *)
(***************************************************************************)
C19_ErrorMeansNoChange ==
    [][(/\ last = Idle
        /\ last'.op \in {"Insert", "Upsert"}
        /\ last'.err # ErrNone)
       => (/\ j'.measurements = j.measurements
           /\ j'.indices = j.indices
           /\ j'.ids = j.ids
           /\ j'.measurementFields = j.measurementFields)]_vars

(***************************************************************************)
(* C20: QueryFields of a series returns exactly the names of the           *)
(* dimensions, indices and labels of the records the engine holds for it   *)
(* (the default index included), and no step, of an ingestion, of Close or *)
(* of New, takes a name away.                                              *)
(***************************************************************************)
FieldsOf(jj, n) ==
    UNION {Keys(r.dims) \cup Keys(r.idx) \cup Keys(r.lab) : r \in StoredIn(jj, n)}

C20_FieldsAreUnion ==
    [][\A n \in QueryNames :
          /\ QueryFields(j', n) = FieldsOf(j', n)
          /\ QueryFields(j, n) \subseteq QueryFields(j', n)]_vars

\* both series, with indexed and index-less records, after a replay
C20_Witness ==
    /\ last.op = "New"
    /\ {"x", "k", DefaultIndexName} \subseteq QueryFields(j, "a")
    /\ QueryFields(j, "b") = {"x", "l", DefaultIndexName}

(***************************************************************************)
(* New as a function of the file: SpecOpen applies it to every log of at   *)
(* most MaxLines lines, good and bad, on a path that can or cannot be      *)
(* opened.                                                                 *)
(***************************************************************************)
GoodLines ==
    {Encode(Validate(m).m) :
        m \in InputsTime \cup InputsOther \cup InputsIdentity}

LogLines ==
    GoodLines \cup {BadBase64, BadJSON} \cup
    {Trailing(Encode(Validate(m).m)) : m \in InputsOther}

Logs == UNION {[1..k -> LogLines] : k \in 0..MaxLines}

\* before New there is no engine
InitOpen ==
    /\ disk \in Logs
    /\ now = 1
    /\ j = [NewJDB(ZeroTime) EXCEPT !.f = FALSE]
    /\ nextPtr = 1
    /\ faults = 0
    /\ admitted = {}
    /\ last = Idle
    /\ threads = NoThreads

OpenLog(canOpen) ==
    LET r == Open(disk, canOpen, TimeNow)
    IN  /\ last = Idle
        /\ j' = r.j
        /\ nextPtr' = Len(disk) + 1
        /\ last' = Last("New", r.err, NoArg)
        /\ UNCHANGED <<disk, now, faults, admitted, threads>>

NextOpen == \E canOpen \in BOOLEAN : OpenLog(canOpen)

SpecOpen == InitOpen /\ [][NextOpen]_vars

(***************************************************************************)
(* C16: New returns an error whenever a line of the file, at any position, *)
(* fails the base64 or the JSON decoding; when New returns no error every  *)
(* line of the file has become a record of the engine.                     *)
(***************************************************************************)
C16_BadLineFailsOpen ==
    last.op = "New" =>
        /\ (\E i \in 1..Len(disk) : DecodeErr(disk[i]) # ErrNone)
               => last.err # ErrNone
        /\ last.err = ErrNone => NumStored(j) = Len(disk)

\* a file whose last line, after two good ones, does not decode
C16_Witness ==
    /\ last.op = "New"
    /\ last.err = ErrCorrupt
    /\ Len(disk) = 3
    /\ FirstBad(disk) = 3

(***************************************************************************)
(* C17: when New returns an error, what it returns beside the error is no  *)
(* engine: it holds no record replayed before the failure and no open      *)
(* file.                                                                   *)
(***************************************************************************)
C17_FailedOpenLeavesNothing ==
    (last.op = "New" /\ last.err # ErrNone) =>
        /\ ~j.f
        /\ NumStored(j) = 0

(***************************************************************************)
(* Concurrent callers: SpecConc runs one call per thread, Insert, Upsert   *)
(* or Close, a line of the code at a time, and queries that run at any     *)
(* moment.  The clock stands still.                                        *)
(***************************************************************************)
ConcInputs == InputsTime \cup InputsIdentity \cup InputsInvalid

\* the lines between Lock and the deferred Unlock
CriticalPcs ==
    {"ids", "fields", "shard", "index", "idsmap", "registry", "buffer",
     "sort1", "sort2", "policy", "flush", "fclose", "unlock"}

InCritical(t) == threads[t].pc \in CriticalPcs

At(t, pc) == threads[t].pc = pc /\ last = Idle

Goto(t, pc) == threads' = [threads EXCEPT ![t].pc = pc]

Fail(t, err) == threads' = [threads EXCEPT ![t].pc = "unlock", ![t].err = err]

InitConc ==
    /\ now = 1
    /\ j = NewJDB(W(1, 0))
    /\ disk = <<>>
    /\ nextPtr = 1
    /\ faults = 0
    /\ admitted = {}
    /\ last = Idle
    /\ threads = NoThreads

\* Insert, lines 530-534 (and Upsert): Validate, before the lock is taken
CallIngest(t, op, m0) ==
    LET v == Validate([m0 EXCEPT !.ptr = t])
    IN  /\ At(t, "idle")
        /\ threads' = [threads EXCEPT ![t] =
              [pc |-> IF v.err # ErrNone THEN "done" ELSE "lock",
               op |-> op, m |-> v.m, err |-> v.err, pre |-> NoCall.pre]]
        /\ UNCHANGED <<j, disk, now, nextPtr, faults, admitted, last>>

\* Close, line 504
CallClose(t) ==
    /\ At(t, "idle")
    /\ threads' = [threads EXCEPT ![t].pc = "lock", ![t].op = "Close"]
    /\ UNCHANGED <<j, disk, now, nextPtr, faults, admitted, last>>

\* a mutex that does not make the caller wait
Acquire_noWait(t) ==
    /\ At(t, "lock")
    /\ j' = [j EXCEPT !.saveMutex = t]
    /\ threads' = [threads EXCEPT
          ![t].pc = IF threads[t].op = "Close" THEN "flush" ELSE "ids",
          ![t].pre = j]
    /\ UNCHANGED <<disk, now, nextPtr, faults, admitted, last>>

\* j.saveMutex.Lock(): Insert line 537, Close line 505
Acquire(t) ==
    /\ At(t, "lock")
    /\ j.saveMutex = 0
    /\ j' = [j EXCEPT !.saveMutex = t]
    /\ threads' = [threads EXCEPT
          ![t].pc = IF threads[t].op = "Close" THEN "flush" ELSE "ids",
          ![t].pre = j]
    /\ UNCHANGED <<disk, now, nextPtr, faults, admitted, last>>

\* Insert, lines 540-547: the lookup of the ids (Upsert has none)
CheckIds(t) ==
    /\ At(t, "ids")
    /\ IF threads[t].op = "Insert" /\ \E id \in ids(threads[t].m) : Has(j.ids, id)
       THEN Fail(t, ErrDuplicateMeasurement)
       ELSE Goto(t, "fields")
    /\ UNCHANGED <<j, disk, now, nextPtr, faults, admitted, last>>

\* Insert, lines 549-552
ClassifyFields(t) ==
    /\ At(t, "fields")
    /\ IF fields(threads[t].m).err # ErrNone
       THEN Fail(t, fields(threads[t].m).err)
       ELSE Goto(t, "shard")
    /\ UNCHANGED <<j, disk, now, nextPtr, faults, admitted, last>>

\* addMeasurement, lines 788-797
AppendShard(t) ==
    LET m  == threads[t].m
        bt == Sub(j.measurements, m.name)
        sh == Append(Shard(bt, dts(m)), m)
    IN  /\ At(t, "shard")
        /\ j' = [j EXCEPT !.measurements =
                    Put(j.measurements, m.name, Put(bt, dts(m), sh))]
        /\ admitted' = admitted \cup {m.name}
        /\ Goto(t, "index")
        /\ UNCHANGED <<disk, now, nextPtr, faults, last>>

\* addMeasurement, lines 799-817
AppendIndices(t) ==
    LET m == threads[t].m
    IN  /\ At(t, "index")
        /\ j' = [j EXCEPT !.indices =
                    Put(j.indices, m.name,
                        addIndices(Sub(j.indices, m.name), m, m.idx))]
        /\ Goto(t, "idsmap")
        /\ UNCHANGED <<disk, now, nextPtr, faults, admitted, last>>

\* addMeasurement, lines 819-822
UpdateIds(t) ==
    LET m == threads[t].m
    IN  /\ At(t, "idsmap")
        /\ j' = [j EXCEPT !.ids = addIds(j.ids, m, ids(m))]
        /\ Goto(t, "registry")
        /\ UNCHANGED <<disk, now, nextPtr, faults, admitted, last>>

\* addMeasurement, lines 824-829
UpdateFields(t) ==
    LET m == threads[t].m
    IN  /\ At(t, "registry")
        /\ j' = [j EXCEPT !.measurementFields =
                    Put(j.measurementFields, m.name,
                        addFields(Sub(j.measurementFields, m.name),
                                  fields(m).f))]
        /\ Goto(t, "buffer")
        /\ UNCHANGED <<disk, now, nextPtr, faults, admitted, last>>

\* Insert, line 556
AppendBuffer(t) ==
    /\ At(t, "buffer")
    /\ j' = [j EXCEPT !.saveBuffer = Append(@, threads[t].m)]
    /\ Goto(t, "sort1")
    /\ UNCHANGED <<disk, now, nextPtr, faults, admitted, last>>

\* Insert, lines 559-561
SortShard(t) ==
    LET m == threads[t].m
    IN  /\ At(t, "sort1")
        /\ j' = [j EXCEPT !.measurements[m.name][dts(m)] = SortFunc(@)]
        /\ Goto(t, "sort2")
        /\ UNCHANGED <<disk, now, nextPtr, faults, admitted, last>>

\* Insert, lines 563-567
SortIndices(t) ==
    LET m == threads[t].m
    IN  /\ At(t, "sort2")
        /\ j' = [j EXCEPT !.indices[m.name] = sortIndexShards(@, m, m.idx)]
        /\ Goto(t, "policy")
        /\ UNCHANGED <<disk, now, nextPtr, faults, admitted, last>>

\* Insert, lines 573-580
FlushPolicy(t) ==
    LET r == flush(j, disk, 0, TimeNow)
    IN  /\ At(t, "policy")
        /\ IF flushDue(j, TimeNow)
           THEN j' = r.j /\ disk' = r.disk /\ Fail(t, r.err)
           ELSE Goto(t, "unlock") /\ UNCHANGED <<j, disk>>
        /\ UNCHANGED <<now, nextPtr, faults, admitted, last>>

\* Close, lines 508-511
CloseFlush(t) ==
    LET r == flush(j, disk, 0, TimeNow)
    IN  /\ At(t, "flush")
        /\ j' = r.j
        /\ disk' = r.disk
        /\ IF r.err # ErrNone THEN Fail(t, r.err) ELSE Goto(t, "fclose")
        /\ UNCHANGED <<now, nextPtr, faults, admitted, last>>

\* Close, line 513
CloseFile(t) ==
    /\ At(t, "fclose")
    /\ j' = [j EXCEPT !.f = FALSE]
    /\ Fail(t, IF j.f THEN ErrNone ELSE ErrIO)
    /\ UNCHANGED <<disk, now, nextPtr, faults, admitted, last>>

\* an Unlock that the paths returning an error do not reach
Release_onSuccessOnly(t) ==
    /\ At(t, "unlock")
    /\ j' = IF threads[t].err = ErrNone THEN [j EXCEPT !.saveMutex = 0] ELSE j
    /\ Goto(t, "done")
    /\ UNCHANGED <<disk, now, nextPtr, faults, admitted, last>>

\* the deferred j.saveMutex.Unlock(), and the return
Release(t) ==
    /\ At(t, "unlock")
    /\ j' = [j EXCEPT !.saveMutex = 0]
    /\ Goto(t, "done")
    /\ UNCHANGED <<disk, now, nextPtr, faults, admitted, last>>

\* what the queries on series "a" return
View(jj) ==
    [all     |-> QueryAll(jj, "a", Nil, TimeNow),
     byIndex |-> [p \in {<<"k", "u">>, <<DefaultIndexName, "a">>} |->
                    QueryAllIndex(jj, "a", p[1], p[2], Nil, TimeNow)],
     fields  |-> QueryFields(jj, "a")]

\* the lines of addMeasurement that write a map
MapWritePcs == {"shard", "index", "idsmap", "registry"}

\* QueryAll, QueryAllIndex and QueryFields take no lock: they read the
\* engine as it is.  A read of a map while another goroutine writes it is
\* a data race: the read returns what is there, or the runtime stops the
\* program (fatal error: concurrent map read and map write).
Query ==
    /\ last = Idle
    /\ \E fatal \in BOOLEAN :
          /\ fatal => \E t \in Threads : threads[t].pc \in MapWritePcs
          /\ last' = [op |-> "Query", err |-> ErrNone, arg |-> NoArg,
                      fatal |-> fatal, seen |-> View(j)]
    /\ UNCHANGED <<j, disk, now, nextPtr, faults, admitted, threads>>

NextConc ==
    \/ \E t \in Threads : \E m \in ConcInputs : CallIngest(t, "Insert", m)
    \/ \E t \in Threads : \E m \in ConcInputs : CallIngest(t, "Upsert", m)
    \/ \E t \in Threads : CallClose(t)
    \/ \E t \in Threads : Acquire(t)
    \/ \E t \in Threads : CheckIds(t)
    \/ \E t \in Threads : ClassifyFields(t)
    \/ \E t \in Threads : AppendShard(t)
    \/ \E t \in Threads : AppendIndices(t)
    \/ \E t \in Threads : UpdateIds(t)
    \/ \E t \in Threads : UpdateFields(t)
    \/ \E t \in Threads : AppendBuffer(t)
    \/ \E t \in Threads : SortShard(t)
    \/ \E t \in Threads : SortIndices(t)
    \/ \E t \in Threads : FlushPolicy(t)
    \/ \E t \in Threads : CloseFlush(t)
    \/ \E t \in Threads : CloseFile(t)
    \/ \E t \in Threads : Release(t)
    \/ Query
    \/ Return

SpecConc == InitConc /\ [][NextConc]_vars

(***************************************************************************)
(* C14: at most one thread is between the Lock and the Unlock of Insert,   *)
(* Upsert or Close (the flush they call included), and that thread holds   *)
(* the mutex.                                                              *)
(***************************************************************************)
C14_MutualExclusion ==
    \A t1, t2 \in Threads :
        /\ (InCritical(t1) /\ InCritical(t2)) => t1 = t2
        /\ InCritical(t1) => j.saveMutex = t1

\* one thread flushes inside Close while another waits for the lock
C14_Witness ==
    \E t1, t2 \in Threads :
        /\ threads[t1].pc = "flush"
        /\ threads[t2].pc = "lock"
        /\ threads[t2].op = "Insert"

(***************************************************************************)
(* C15: a query that runs while an Insert or Upsert is under way returns   *)
(* what it would return before that ingestion or after it, never a state   *)
(* in between, and the program does not stop.                              *)
(***************************************************************************)
\* the engine once Insert or Upsert of m has run on jj (the flush aside)
Applied(jj, m) ==
    sortTouched([addMeasurement(jj, m, ids(m), fields(m).f)
                    EXCEPT !.saveBuffer = Append(@, m)], m)

\* what a query may return: the view of the engine between calls
Committed ==
    IF \E t \in Threads : InCritical(t) /\ threads[t].op # "Close"
    THEN LET t == CHOOSE u \in Threads :
                      InCritical(u) /\ threads[u].op # "Close"
         IN  {View(threads[t].pre), View(Applied(threads[t].pre, threads[t].m))}
    ELSE {View(j)}

C15_ReadsSeeNoIntermediate ==
    last.op = "Query" => (~last.fatal /\ last.seen \in Committed)

(***************************************************************************)
(* The tabular export.  SpecCSV ingests measurements whose fields differ   *)
(* from one record to the next, in name and in kind, and exports the       *)
(* series.  The clock stands still and no write fails.                     *)
(***************************************************************************)
\* the field names of the model, in the order of slices.Sort (byte order)
FieldOrder == <<DefaultIndexName, "k", "l", "x", "y">>

\* slices.Sort(fieldNames): the names of a set, in order
sortedNames(S) == SelectSeq(FieldOrder, LAMBDA f : f \in S)

\* m[k] on a Go map: the value at k, or the zero value when k is no key
Get(pairs, k, zero) ==
    IF k \in Keys(pairs) THEN (CHOOSE p \in pairs : p[1] = k)[2] ELSE zero

\* strconv.FormatFloat(v, 'g', -1, 64)
FormatFloat(v) == <<"0", "1", "2">>[v + 1]

\* When.Format(time.RFC3339): the instant and the offset of the location
RFC3339(w) == <<w.t, w.off>>

\* QueryAllCSV, lines 686-707: the cell of a record in the column of field f,
\* read from the map the registry's kind of f names
cell(m, f, kinds) ==
    IF kinds[f] = "dimension" THEN FormatFloat(Get(m.dims, f, 0))
    ELSE IF kinds[f] = "index" THEN Get(m.idx, f, "")
    ELSE Get(m.lab, f, "")

\* QueryAllCSV: the possible tables (none when QueryAll fails)
QueryAllCSV(jj, name, o, t) ==
    IF QueryAllErr(jj, name) # ErrNone THEN {}
    ELSE LET kinds == Sub(jj.measurementFields, name)
             cols  == sortedNames(DOMAIN kinds)
         IN  {[header |-> <<"timestamp", "measure">> \o cols,
               rows   |-> [i \in 1..Len(res) |->
                             [when    |-> RFC3339(res[i].when),
                              measure |-> res[i].name,
                              cells   |-> [c \in 1..Len(cols) |->
                                             cell(res[i], cols[c], kinds)]]]] :
                 res \in QueryAll(jj, name, o, t)}

\* one series whose records differ in their dimensions and in the kind of
\* the field k, and another series
CsvInputs ==
    {Meas(0, W(1, 0), "a", {<<"x", 1>>}, {<<"k", "u">>}, {}),
     Meas(0, W(2, 0), "a", {<<"y", 2>>}, {<<"k", "w">>}, {}),
     Meas(0, W(3, 0), "a", {<<"x", 2>>}, {}, {<<"k", "v">>}),
     Meas(0, W(3, 0), "a", {<<"x", 1>>, <<"y", 2>>}, {}, {<<"l", "v">>}),
     Meas(0, W(2, 0), "b", {<<"x", 1>>}, {}, {<<"l", "v">>})}

InitCSV ==
    /\ now = 1
    /\ j = NewJDB(W(1, 0))
    /\ disk = <<>>
    /\ nextPtr = 1
    /\ faults = 0
    /\ admitted = {}
    /\ last = Idle
    /\ threads = NoThreads

\* a call of QueryAllCSV with nil options
ExportCSV(name) ==
    /\ last = Idle
    /\ last' = [op |-> "QueryAllCSV", err |-> QueryAllErr(j, name),
                arg |-> NoArg, name |-> name,
                out |-> QueryAllCSV(j, name, Nil, TimeNow)]
    /\ UNCHANGED <<j, disk, now, nextPtr, faults, admitted, threads>>

NextCSV ==
    \/ \E m \in CsvInputs : Insert([m EXCEPT !.ptr = nextPtr], 0)
    \/ \E n \in QueryNames : ExportCSV(n)
    \/ Return

SpecCSV == InitCSV /\ [][NextCSV]_vars

\* the record's own value for a field name, as text; empty when it has none
ownValue(m, f) ==
    IF f \in Keys(m.dims) THEN FormatFloat(Get(m.dims, f, 0))
    ELSE IF f \in Keys(m.idx) THEN Get(m.idx, f, "")
    ELSE Get(m.lab, f, "")

\* the table the export contract asks for
contractCSV(jj, res) ==
    LET cols == sortedNames(FieldsOf(jj, res[1].name))
    IN  [header |-> <<"timestamp", "measure">> \o cols,
         rows   |-> [i \in 1..Len(res) |->
                       [when    |-> RFC3339(res[i].when),
                        measure |-> res[i].name,
                        cells   |-> [c \in 1..Len(cols) |->
                                       ownValue(res[i], cols[c])]]]]

(***************************************************************************)
(* C21: the table QueryAllCSV returns for a series has the columns         *)
(* timestamp, measure and then the sorted union of the field names of the  *)
(* series, and one row per record of QueryAll in which the cell of a field *)
(* is the record's own value for that name, of whatever kind, and is empty *)
(* when the record has no field of that name.                              *)
(***************************************************************************)
C21_ExportCells ==
    (last.op = "QueryAllCSV" /\ last.err = ErrNone) =>
        last.out = {contractCSV(j, res) :
                      res \in QueryAll(j, last.name, Nil, TimeNow)}

(***************************************************************************)
(* Re-submission.  SpecUpsert runs one Insert on an empty engine and then  *)
(* Upsert calls whose measurement shares an identity key with a record the *)
(* engine holds: a new Measurement, or one passed before.  The clock       *)
(* starts at the instant of the measurements, so that the window of a      *)
(* query with options holds them all.                                      *)
(***************************************************************************)
InitUpsert ==
    /\ now = 2
    /\ j = NewJDB(W(2, 0))
    /\ disk = <<>>
    /\ nextPtr = 1
    /\ faults = 0
    /\ admitted = {}
    /\ last = Idle
    /\ threads = NoThreads

NextUpsert ==
    \/ \E m \in InputsIdentity :
          NumStored(j) = 0 /\ Insert([m EXCEPT !.ptr = nextPtr], 0)
    \/ \E m \in Args :
          /\ \E r \in Stored(j) : ids(Validate(m).m) \cap ids(r) # {}
          /\ Upsert(m, 0)
    \/ Tick
    \/ Return

SpecUpsert == InitUpsert /\ [][NextUpsert]_vars

(***************************************************************************)
(* C22: after an Insert, every Upsert of a measurement that shares the     *)
(* identity key of the records held, the stored Measurement itself         *)
(* included, leaves the deduplicated QueryAll of the series returning      *)
(* exactly one record, with the dimensions of that last Upsert.            *)
(***************************************************************************)
C22_UpsertRepeat ==
    (last.op = "Upsert" /\ last.err = ErrNone) =>
        /\ QueryAll(j, last.arg.name, DedupOpts, TimeNow) # {}
        /\ \A res \in QueryAll(j, last.arg.name, DedupOpts, TimeNow) :
               Len(res) = 1 /\ res[1].dims = last.arg.dims

(***************************************************************************)
(* Validate as a function of the Measurement: SpecValidate applies it,     *)
(* once and twice, to measurements with and without a name, dimensions,    *)
(* indices (the reserved name among them) and labels.                      *)
(***************************************************************************)
ValidateInputs ==
    {Meas(0, w, n, d, i, l) :
        w \in {W(1, 0), W(2, Hour)},
        n \in Names \cup {""},
        d \in SUBSET {<<"x", 1>>, <<"y", 2>>},
        i \in SUBSET {<<"k", "u">>, <<"j", "u">>, <<DefaultIndexName, "b">>},
        l \in SUBSET {<<"l", "v">>}}

InitValidate ==
    /\ now = 1
    /\ j = NewJDB(W(1, 0))
    /\ disk = <<>>
    /\ nextPtr = 1
    /\ faults = 0
    /\ admitted = {}
    /\ last = Idle
    /\ threads = NoThreads

\* m.Validate(), and m.Validate() once more on the Measurement it left
NextValidate ==
    \E m \in ValidateInputs :
        /\ last' = [op |-> "Validate", arg |-> m, err |-> Validate(m).err,
                    m |-> Validate(m).m, again |-> Validate(Validate(m).m)]
        /\ UNCHANGED <<j, disk, now, nextPtr, faults, admitted, threads>>

SpecValidate == InitValidate /\ [][NextValidate]_vars

(***************************************************************************)
(* C23: Validate returns ErrEmptyName when the name is empty, whatever the *)
(* rest is; else ErrNoDimensions when there are no dimensions; else nil.   *)
(* When it returns nil, a measurement without indices has got the one      *)
(* index entry DefaultIndexName -> name and is otherwise as it was, and a  *)
(* measurement with indices is as it was; a second Validate returns nil    *)
(* and leaves the measurement as the first left it.                        *)
(***************************************************************************)
C23_ValidateContract ==
    last.op = "Validate" =>
        LET m == last.arg
        IN  IF m.name = "" THEN last.err = ErrEmptyName
            ELSE IF m.dims = {} THEN last.err = ErrNoDimensions
            ELSE /\ last.err = ErrNone
                 /\ IF m.idx = {}
                    THEN last.m =
                           [m EXCEPT !.idx = {<<DefaultIndexName, m.name>>}]
                    ELSE last.m = m
                 /\ last.again = [err |-> ErrNone, m |-> last.m]

\* a named measurement with two dimensions and no index has been validated
C23_Witness ==
    /\ last.op = "Validate"
    /\ last.err = ErrNone
    /\ Cardinality(last.arg.dims) = 2
    /\ last.arg.idx = {}
    /\ last.m.idx = {<<DefaultIndexName, last.arg.name>>}

(***************************************************************************)
(* C24: when Insert or Upsert returns nil the save buffer holds fewer than *)
(* FlushMaxSize measurements; a call that takes its measurement in and     *)
(* finds the buffer, the measurement included, at FlushMaxSize or above    *)
(* flushes before it returns: it returns the error of the flush, or it     *)
(* returns nil with the buffer, the new measurement last, written to the   *)
(* file, the buffer empty and lastSave the current time.                   *)
(***************************************************************************)
C24_SizeFlush ==
    [][(last = Idle /\ last'.op \in {"Insert", "Upsert"}) =>
          /\ last'.err = ErrNone => Len(j'.saveBuffer) < FlushMaxSize
          /\ (/\ last'.err \in {ErrNone, ErrIO}
              /\ Len(j.saveBuffer) + 1 >= FlushMaxSize)
             => IF last'.err = ErrNone
                THEN /\ j'.saveBuffer = <<>>
                     /\ j'.lastSave = TimeNow
                     /\ disk' = disk \o Values(Append(j.saveBuffer, last'.arg))
                ELSE j'.saveBuffer = Append(j.saveBuffer, last'.arg)]_vars

\* a flush that lastSave does not call for: the buffer has reached its size
C24_Witness ==
    /\ last.op \in {"Insert", "Upsert"}
    /\ last.err = ErrNone
    /\ now = 1
    /\ j.saveBuffer = <<>>
    /\ Len(disk) = FlushMaxSize

(***************************************************************************)
(* C25: an Insert or Upsert that returns nil at a time when                *)
(* FlushMaxDuration or more has passed since lastSave, exactly             *)
(* FlushMaxDuration included, has flushed: the buffer, the new measurement *)
(* last, is in the file, the buffer is empty and lastSave is the current   *)
(* time.                                                                   *)
(***************************************************************************)
C25_TimeFlush ==
    [][(/\ last = Idle
        /\ last'.op \in {"Insert", "Upsert"}
        /\ last'.err = ErrNone
        /\ now - j.lastSave.t >= FlushMaxDuration)
       => (/\ j'.saveBuffer = <<>>
           /\ j'.lastSave = TimeNow
           /\ disk' = disk \o Values(Append(j.saveBuffer, last'.arg)))]_vars

(***************************************************************************)
(* An engine at rest.  SpecIdle ingests a few measurements and then lets   *)
(* the clock run and queries come, so that the buffer gets older than      *)
(* FlushMaxDuration while it holds measurements.                           *)
(***************************************************************************)
NextIdle ==
    \/ \E m \in InputsTime \cup InputsOther :
          Insert([m EXCEPT !.ptr = nextPtr], 0)
    \/ Tick
    \/ Query
    \/ Return

SpecIdle == InitConc /\ [][NextIdle]_vars

(***************************************************************************)
(* C26: there is no flush in the background.  A step in which the clock    *)
(* advances, and a query, leave the file and the save buffer as they were, *)
(* also when the last flush is longer ago than FlushMaxDuration.           *)
(***************************************************************************)
C26_NoBackgroundFlush ==
    [][(now' # now \/ last'.op = "Query")
       => UNCHANGED <<disk, j>>]_vars

\* a query finds a measurement buffered for longer than FlushMaxDuration
C26_Witness ==
    /\ last.op = "Query"
    /\ j.saveBuffer # <<>>
    /\ now - j.lastSave.t > FlushMaxDuration
    /\ disk = <<>>

(***************************************************************************)
(* C27: as long as no write has failed, the lines of the file followed by  *)
(* the measurements of the save buffer are the measurements the engine has *)
(* taken in, in the order it took them in: an Insert or Upsert that        *)
(* returns nil adds its measurement at the end, and no other step changes  *)
(* the sequence.  A step that writes to the file writes the whole buffer   *)
(* in its order, leaves the buffer empty and sets lastSave to the current  *)
(* time.                                                                   *)
(***************************************************************************)
C27_LogThenBuffer ==
    [][faults' = 0 =>
          LET before == disk \o Values(j.saveBuffer)
              after  == disk' \o Values(j'.saveBuffer)
          IN  /\ IF /\ last = Idle
                    /\ last'.op \in {"Insert", "Upsert"}
                    /\ last'.err = ErrNone
                 THEN after = Append(before, Encode(last'.arg))
                 ELSE after = before
              /\ disk' # disk =>
                    /\ j'.saveBuffer = <<>>
                    /\ j'.lastSave = TimeNow
                    /\ Len(disk') - Len(disk) \in
                          {Len(j.saveBuffer), Len(j.saveBuffer) + 1}]_vars

\* a flush of two different measurements, and a third one in the buffer
C27_Witness ==
    /\ faults = 0
    /\ last.op \in {"Insert", "Upsert"}
    /\ last.err = ErrNone
    /\ Len(disk) = 2
    /\ disk[1] # disk[2]
    /\ Len(j.saveBuffer) = 1

(***************************************************************************)
(* C28: New applies no duplicate check.  A file that can be opened and     *)
(* whose lines all decode is replayed without error whatever identity keys *)
(* its lines share: every line is one record of the time-shards, and the   *)
(* ids map holds, for every identity key of a line, the record of the last *)
(* line that has the key.                                                  *)
(***************************************************************************)
C28_ReplayKeepsDuplicates ==
    (last.op = "New" /\ j.f /\ FirstBad(disk) = 0) =>
        LET rec(i) == Decode(disk[i], i)
            lines  == 1..Len(disk)
        IN  /\ last.err = ErrNone
            /\ NumStored(j) = Len(disk)
            /\ Stored(j) = {rec(i) : i \in lines}
            /\ DOMAIN j.ids = UNION {ids(rec(i)) : i \in lines}
            /\ \A k \in DOMAIN j.ids :
                   \E i \in lines :
                       /\ k \in ids(rec(i))
                       /\ j.ids[k] = rec(i)
                       /\ \A n \in lines : k \in ids(rec(n)) => n <= i

\* three lines with one identity key, the last unlike the first
C28_Witness ==
    /\ last.op = "New"
    /\ last.err = ErrNone
    /\ Len(disk) = 3
    /\ disk[1] # disk[3]
    /\ \E k \in DOMAIN j.ids :
           /\ \A i \in 1..3 : k \in ids(Decode(disk[i], i))
           /\ j.ids[k].ptr = 3

(***************************************************************************)
(* C29: between calls, after a replay and after every Insert and Upsert,   *)
(* every bucket of the time-shards and every bucket of the index-shards is *)
(* in non-decreasing order of the instants of its measurements.            *)
(***************************************************************************)
C29_ShardsSorted ==
    /\ \A n \in DOMAIN j.measurements : \A b \in DOMAIN j.measurements[n] :
           IsSorted(j.measurements[n][b])
    /\ \A n \in DOMAIN j.indices : \A k \in DOMAIN j.indices[n] :
           \A v \in DOMAIN j.indices[n][k] : \A b \in DOMAIN j.indices[n][k][v] :
               IsSorted(j.indices[n][k][v][b])

\* a replay of a file in which a later measurement of a bucket comes first
C29_Witness ==
    /\ last.op = "New"
    /\ last.err = ErrNone
    /\ \E i, k \in 1..Len(disk) :
           /\ i < k
           /\ disk[i].name = disk[k].name
           /\ dts(disk[i]) = dts(disk[k])
           /\ disk[i].when.t > disk[k].when.t

(***************************************************************************)
(* The derived ID as bytes.  Elsewhere in this model the strings hold no   *)
(* NUL byte and an ID is the tuple of its parts; here a string is a        *)
(* sequence of bytes and ids is followed byte by byte.  A byte has 4 bits  *)
(* and a base64 symbol 3, as 8 is to 6; 0 is the NUL byte.                 *)
(***************************************************************************)
\* the length of the strings at most
MaxStr == 2
\* binary.MaxVarintLen64, for integers of the width of NsMod
MaxVarintLen == 2

\* the strings of at most MaxStr bytes over NUL and one other byte
Strings == UNION {[1..n -> {0, 1}] : n \in 0..MaxStr}

\* binary.PutVarint into a buffer of MaxVarintLen zero bytes: the integer
\* is read as signed, zig-zag encoded, and written 3 bits to a byte, low
\* bits first, with the top bit of a byte set when another byte follows
RECURSIVE putUvarint(_)
putUvarint(ux) ==
    IF ux >= 8 THEN <<8 + (ux % 8)>> \o putUvarint(ux \div 8) ELSE <<ux>>

PutVarint(ns) ==
    LET x   == IF ns >= NsMod \div 2 THEN ns - NsMod ELSE ns
        ux  == IF x < 0 THEN (0 - 2 * x) - 1 ELSE 2 * x
        enc == putUvarint(ux)
    IN  enc \o [i \in 1..(MaxVarintLen - Len(enc)) |-> 0]

\* base64.StdEncoding.EncodeToString: 3 bytes make 4 symbols; 1 or 2 bytes
\* left over make 2 or 3 symbols and the padding (written 8)
RECURSIVE EncodeToString(_)
EncodeToString(b) ==
    IF Len(b) = 0 THEN <<>>
    ELSE IF Len(b) = 1
    THEN LET v == b[1] * 4 IN <<v \div 8, v % 8, 8, 8>>
    ELSE IF Len(b) = 2
    THEN LET v == (b[1] * 16 + b[2]) * 2
         IN  <<v \div 64, (v \div 8) % 8, v % 8, 8>>
    ELSE LET v == b[1] * 256 + b[2] * 16 + b[3]
         IN  <<v \div 512, (v \div 64) % 8, (v \div 8) % 8, v % 8>>
             \o EncodeToString(SubSeq(b, 4, Len(b)))

\* ids, lines 92-115: the ID of one index entry of a measurement
idOf(name, iK, iV, w) ==
    EncodeToString(name \o <<0>> \o iK \o <<0>> \o iV \o <<0>>
                   \o PutVarint(UnixNano(w)) \o <<0>>)

\* a name, one index entry and an instant; the instants are a nanosecond
\* and 2^64 nanoseconds apart
IdInputs ==
    {[name |-> n, iK |-> k, iV |-> v, when |-> w] :
        n \in Strings \ {<<>>}, k \in Strings, v \in Strings,
        w \in {W(1, 0), W(2, 0), W(1 + NsMod, 0)}}

NextIds ==
    \E x \in IdInputs :
        /\ last' = [op |-> "ids", arg |-> x,
                    id |-> idOf(x.name, x.iK, x.iV, x.when)]
        /\ UNCHANGED <<j, disk, now, nextPtr, faults, admitted, threads>>

SpecIds == InitConc /\ [][NextIds]_vars

(***************************************************************************)
(* C30: the IDs of two index entries are equal exactly when the names, the *)
(* index keys, the index values and the instants, to the nanosecond, are   *)
(* equal, for all strings, those with a NUL byte included, and all         *)
(* instants.                                                               *)
(***************************************************************************)
C30_IdsInjective ==
    last.op = "ids" =>
        \A y \in IdInputs :
            (idOf(y.name, y.iK, y.iV, y.when) = last.id) <=>
                (/\ y.name = last.arg.name
                 /\ y.iK = last.arg.iK
                 /\ y.iV = last.arg.iV
                 /\ y.when.t = last.arg.when.t)

(***************************************************************************)
(* C31: the IDs map is consistent with the shards.  In every state each    *)
(* entry of the map points at a record that is in its time-shard bucket    *)
(* and in the index-shard bucket of each of its index entries, and that    *)
(* has the key among its own ids; every id of every record of the shards   *)
(* is a key of the map.  An Insert or Upsert that takes a measurement in   *)
(* makes every id of that measurement point at it and leaves the other     *)
(* entries as they were, so that a key always points at the record taken   *)
(* in last among those that have it.  The engine changes in these calls,   *)
(* in Close and in New only, and is empty at the start.                    *)
(***************************************************************************)
C31_IdsMapConsistent ==
    [][j' # j =>
          /\ \A k \in DOMAIN j'.ids :
                 LET r == j'.ids[k]
                 IN  /\ k \in ids(r)
                     /\ r \in Range(Shard(Sub(j'.measurements, r.name), dts(r)))
                     /\ \A p \in r.idx :
                            r \in Range(Shard(Sub(Sub(Sub(j'.indices, r.name),
                                                      p[1]), p[2]), dts(r)))
          /\ \A r \in Stored(j') : ids(r) \subseteq DOMAIN j'.ids
          /\ IF /\ last = Idle
                /\ last'.op \in {"Insert", "Upsert"}
                /\ last'.err \in {ErrNone, ErrIO}
             THEN /\ \A k \in ids(last'.arg) : j'.ids[k] = last'.arg
                  /\ \A k \in DOMAIN j.ids :
                         k \notin ids(last'.arg) => j'.ids[k] = j.ids[k]
                  /\ DOMAIN j'.ids = DOMAIN j.ids \cup ids(last'.arg)
             ELSE last'.op \in {"New", "Close"}]_vars

\* two ids of one record, one of them taken over from an older record
C31_Witness ==
    /\ last.op = "Upsert"
    /\ last.err = ErrNone
    /\ Cardinality(ids(last.arg)) = 2
    /\ \A k \in ids(last.arg) : j.ids[k] = last.arg
    /\ \E r \in Stored(j) : r.ptr # last.arg.ptr /\ ids(r) \cap ids(last.arg) # {}

(***************************************************************************)
(* C32: the bucket of a measurement depends on its instant only: two       *)
(* records of a series whose instants lie in the same hour are in the same *)
(* bucket, whatever location their timestamps carry, so that no bucket     *)
(* holds an instant that lies between the instants of another bucket.      *)
(***************************************************************************)
C32_BucketKeyInstantOnly ==
    \A r1, r2 \in Stored(j) :
        r1.name = r2.name =>
            /\ (r1.when.t \div Hour = r2.when.t \div Hour) => dts(r1) = dts(r2)
            /\ (dts(r1) # dts(r2) /\ r1.when.t < r2.when.t) =>
                   \A r3 \in Stored(j) :
                       (r3.name = r1.name /\ dts(r3) = dts(r1))
                           => r3.when.t <= r2.when.t

(***************************************************************************)
(* C33: Insert classifies the fields before it looks the ids up: a         *)
(* measurement that passes Validate, uses one field name in two of         *)
(* dimensions, indices and labels, and has an id that is a key of the IDs  *)
(* map, is rejected with ErrFieldInUse, not ErrDuplicateMeasurement.       *)
(***************************************************************************)
C33_FieldsBeforeDuplicate ==
    [][(/\ last = Idle
        /\ last'.op = "Insert"
        /\ Validate(last'.arg).err = ErrNone
        /\ fields(last'.arg).err = ErrFieldInUse
        /\ \E id \in ids(last'.arg) : Has(j.ids, id))
       => last'.err = ErrFieldInUse]_vars

FlushFails(t) ==
    LET r == flush(j, disk, 1, TimeNow)
    IN  /\ At(t, "policy")
        /\ flushDue(j, TimeNow)
        /\ faults < MaxFaults
        /\ faults' = faults + 1
        /\ j' = r.j
        /\ disk' = r.disk
        /\ Fail(t, r.err)
        /\ UNCHANGED <<now, nextPtr, admitted, last>>

\* the next line of the call thread t is in
Step(t) ==
    \/ Acquire(t)
    \/ CheckIds(t)
    \/ ClassifyFields(t)
    \/ AppendShard(t)
    \/ AppendIndices(t)
    \/ UpdateIds(t)
    \/ UpdateFields(t)
    \/ AppendBuffer(t)
    \/ SortShard(t)
    \/ SortIndices(t)
    \/ FlushPolicy(t)
    \/ FlushFails(t)
    \/ CloseFlush(t)
    \/ CloseFile(t)
    \/ Release(t)

NextLive ==
    \/ \E t \in Threads : \E m \in ConcInputs : CallIngest(t, "Insert", m)
    \/ \E t \in Threads : \E m \in ConcInputs : CallIngest(t, "Upsert", m)
    \/ \E t \in Threads : CallClose(t)
    \/ \E t \in Threads : Step(t)

SpecLive ==
    /\ InitConc
    /\ [][NextLive]_vars
    /\ \A t \in Threads : WF_vars(Step(t)) /\ SF_vars(Acquire(t))

(***************************************************************************)
(* C35: no call blocks for ever.  Insert, Upsert and Close release the     *)
(* mutex on every path on which they return, so a thread that waits for    *)
(* the mutex eventually holds it, and every call that has started          *)
(* eventually returns.                                                     *)
(***************************************************************************)
C35_NoBlocking ==
    \A t \in Threads :
        /\ (threads[t].pc = "lock") ~> InCritical(t)
        /\ (threads[t].pc # "idle") ~> (threads[t].pc = "done" /\ j.saveMutex # t)

\* a thread waits for the mutex while the holder is about to return an error
C35_Witness ==
    \E t1, t2 \in Threads :
        /\ threads[t1].pc = "unlock"
        /\ threads[t1].err = ErrFieldInUse
        /\ threads[t2].pc = "lock"

(***************************************************************************)
(* C36: the lookup of the ids and the insertion are one step for other     *)
(* callers.  When two threads have called Insert with measurements that    *)
(* pass Validate and fields and share an id, then, however their lines     *)
(* interleave, once both have returned they have not both returned nil,    *)
(* and the shards hold at most one of the two records.  When no other      *)
(* caller has passed a measurement with one of their ids and the file is   *)
(* open, one has returned nil and the other ErrDuplicateMeasurement, the   *)
(* shards hold one record with the shared id, and the IDs map points at    *)
(* the measurement of the call that returned nil.                          *)
(***************************************************************************)
\* no caller besides t1 and t2 has passed a measurement with an id of theirs
OnlyCallers(t1, t2) ==
    \A t \in Threads \ {t1, t2} :
        \/ threads[t].pc = "idle"
        \/ ids(threads[t].m) \cap
              (ids(threads[t1].m) \cup ids(threads[t2].m)) = {}

C36_CheckAndInsertAtomic ==
    \A t1, t2 \in Threads :
        (/\ t1 # t2
         /\ threads[t1].pc = "done" /\ threads[t1].op = "Insert"
         /\ threads[t2].pc = "done" /\ threads[t2].op = "Insert"
         /\ Validate(threads[t1].m).err = ErrNone
         /\ Validate(threads[t2].m).err = ErrNone
         /\ fields(threads[t1].m).err = ErrNone
         /\ fields(threads[t2].m).err = ErrNone
         /\ ids(threads[t1].m) \cap ids(threads[t2].m) # {})
        => /\ ~(threads[t1].err = ErrNone /\ threads[t2].err = ErrNone)
           /\ ~({threads[t1].m, threads[t2].m} \subseteq Stored(j))
           /\ (OnlyCallers(t1, t2) /\ j.f) =>
                  /\ {threads[t1].err, threads[t2].err} =
                        {ErrNone, ErrDuplicateMeasurement}
                  /\ \A k \in ids(threads[t1].m) \cap ids(threads[t2].m) :
                         /\ Cardinality({r \in Stored(j) : k \in ids(r)}) = 1
                         /\ Has(j.ids, k)
                         /\ \E t \in {t1, t2} :
                                threads[t].err = ErrNone /\ j.ids[k] = threads[t].m

\* two Inserts of unlike measurements with a common id have both returned
C36_Witness ==
    \E t1, t2 \in Threads :
        /\ threads[t1].pc = "done" /\ threads[t1].op = "Insert"
        /\ threads[t2].pc = "done" /\ threads[t2].op = "Insert"
        /\ threads[t1].err = ErrNone
        /\ threads[t2].err = ErrDuplicateMeasurement
        /\ threads[t1].m.idx # threads[t2].m.idx
        /\ NumStored(j) = 1

(***************************************************************************)
(* C37: in every state, also after Upserts of records whose index entries  *)
(* overlap in part only, no result of a deduplicated QueryAll or           *)
(* QueryAllIndex holds two different physical records that have an         *)
(* identity key in common.                                                 *)
(***************************************************************************)
\* no two different records of the result have an id in common
OnePerKey(res) ==
    \A a, b \in 1..Len(res) :
        (res[a].ptr # res[b].ptr) => (ids(res[a]) \cap ids(res[b]) = {})

C37_DedupOnePerKey ==
    \A n \in Names :
        /\ \A res \in QueryAll(j, n, DedupOpts, TimeNow) : OnePerKey(res)
        /\ \A p \in IndexPairs :
               \A res \in QueryAllIndex(j, n, p[1], p[2], DedupOpts, TimeNow) :
                   OnePerKey(res)

(***************************************************************************)
(* The two layouts.  SpecShards fills the engine by Insert and Upsert,     *)
(* with records of one and of two index entries and records without index  *)
(* at instants that arrive out of order, closes it and replays the log,    *)
(* while the clock runs.  No write fails.                                  *)
(***************************************************************************)
ShardInputs ==
    {Meas(0, W(2, 0), "a", {<<"x", 1>>}, {<<"k", "u">>}, {}),
     Meas(0, W(2, 0), "a", {<<"x", 2>>}, {<<"k", "u">>, <<"j", "u">>}, {}),
     Meas(0, W(1, Hour), "a", {<<"x", 1>>}, {}, {}),
     Meas(0, W(3, 0), "a", {<<"x", 1>>}, {}, {}),
     Meas(0, W(2, 0), "b", {<<"x", 1>>}, {}, {<<"l", "v">>})}

NextShards ==
    \/ \E m \in ShardInputs : Insert([m EXCEPT !.ptr = nextPtr], 0)
    \/ \E m \in {[x EXCEPT !.ptr = nextPtr] : x \in ShardInputs} \cup Stored(j) :
          Upsert(m, 0)
    \/ Close(0)
    \/ New
    \/ Tick
    \/ Return

SpecShards == Init /\ [][NextShards]_vars

(***************************************************************************)
(* C38: the index-shards and the time-shards agree.  In every state, for   *)
(* every series, index entry k:v and options, QueryAllIndex fails when     *)
(* QueryAll fails, and each of its results holds the records of a result   *)
(* of QueryAll whose indices map k to v, each as many times (none has the  *)
(* entry when the index is unknown); and a record is in a bucket of the    *)
(* time-shards as many times as in the same bucket of the index-shard of   *)
(* each of its index entries, the index-shards holding nothing else.       *)
(***************************************************************************)
\* how many times each record is in a slice
Tally(s) == [r \in Range(s) |-> Cardinality({i \in 1..Len(s) : s[i] = r})]

\* the records of a result whose indices have the entry p
WithEntry(res, p) == SelectSeq(res, LAMBDA m : p \in m.idx)

SameBuckets(jj, n) ==
    LET byTime == Sub(jj.measurements, n)
        byKey  == Sub(jj.indices, n)
    IN  /\ \A b \in DOMAIN byTime : \A r \in Range(byTime[b]) : \A p \in r.idx :
               Tally(Shard(Sub(Sub(byKey, p[1]), p[2]), b))[r] = Tally(byTime[b])[r]
        /\ \A k \in DOMAIN byKey : \A v \in DOMAIN byKey[k] :
               \A b \in DOMAIN byKey[k][v] : \A r \in Range(byKey[k][v][b]) :
                   /\ <<k, v>> \in r.idx
                   /\ r \in Range(Shard(byTime, b))

C38_ShardsAgree ==
    \A n \in Names :
        /\ Has(j.measurements, n) <=> Has(j.indices, n)
        /\ SameBuckets(j, n)
        /\ \A o \in QueryOpts :
               LET all == QueryAll(j, n, o, TimeNow)
               IN  \A p \in IndexPairs :
                       LET ix == QueryAllIndex(j, n, p[1], p[2], o, TimeNow)
                       IN  /\ all = {} => ix = {}
                           /\ \A ra \in all :
                                  IF QueryAllIndexErr(j, n, p[1]) = ErrNone
                                  THEN /\ ix # {}
                                       /\ \A ri \in ix :
                                              Tally(ri) = Tally(WithEntry(ra, p))
                                  ELSE WithEntry(ra, p) = <<>>

\* an index query with a window returns a part of what QueryAll returns, a
\* record with two index entries in it
C38_Witness ==
    \E ri \in QueryAllIndex(j, "a", "k", "u", ZeroOpts, TimeNow) :
        \E ra \in QueryAll(j, "a", ZeroOpts, TimeNow) :
            /\ Len(ri) >= 1
            /\ Len(ra) > Len(ri)
            /\ \E i \in 1..Len(ri) : Cardinality(ri[i].idx) = 2
            /\ Tally(ri) = Tally(WithEntry(ra, <<"k", "u">>))

(***************************************************************************)
(* C39: each accepted record is written to the log at most once.  Whenever *)
(* the save buffer is empty (after a flush or a Close that succeeded, or a *)
(* replay), also when an earlier flush failed after it had written some    *)
(* lines, the log has one line for each physical record of the engine: as  *)
(* many lines as records, and no more lines of one content than records    *)
(* of that content.                                                        *)
(***************************************************************************)
\* the lines of the log with the content of r
LinesOf(r) == {i \in 1..Len(disk) : disk[i] = Encode(r)}

\* the entries of the time-shards with the content of r
EntriesOf(jj, r) ==
    LET byTime == Sub(jj.measurements, r.name)
    IN  {<<b, i>> \in (DOMAIN byTime) \X (1..MaxRecs) :
            i <= Len(byTime[b]) /\ Encode(byTime[b][i]) = Encode(r)}

C39_WrittenOnce ==
    (j.saveBuffer = <<>>) =>
        /\ Len(disk) = NumStored(j)
        /\ \A r \in Stored(j) :
               Cardinality(LinesOf(r)) <= Cardinality(EntriesOf(j, r))

(***************************************************************************)
(* Reopening.  SpecReopen starts from a log of at most MaxLines lines that *)
(* all decode, and opens and closes the store over and over, the clock     *)
(* running, with no ingestion in between.                                  *)
(***************************************************************************)
ValidLogs == {l \in Logs : FirstBad(l) = 0}

InitReopen ==
    /\ disk \in ValidLogs
    /\ now = 1
    /\ j = [NewJDB(ZeroTime) EXCEPT !.f = FALSE]
    /\ nextPtr = 1
    /\ faults = 0
    /\ admitted = {}
    /\ last = Idle
    /\ threads = NoThreads

NextReopen ==
    \/ New
    \/ Close(0)
    \/ Tick
    \/ Return

SpecReopen == InitReopen /\ [][NextReopen]_vars

(***************************************************************************)
(* C40: the replay does not refill the save buffer.  Whatever valid log    *)
(* the store is opened on, and however often it is opened and closed with  *)
(* no ingestion in between, every step leaves the content of the file as   *)
(* it was: New leaves the buffer empty and holds one record for each line, *)
(* and Close, which succeeds, has nothing to write.                        *)
(***************************************************************************)
C40_ReopenKeepsLog ==
    [][/\ disk' = disk
       /\ j'.saveBuffer = <<>>
       /\ (last = Idle /\ last'.op = "New") =>
              /\ last'.err = ErrNone
              /\ j'.f
              /\ NumStored(j') = Len(disk)
       /\ (last = Idle /\ last'.op = "Close") =>
              /\ last'.err = ErrNone
              /\ ~j'.f]_vars

\* the store, opened on a log of several lines, has been closed again
C40_Witness ==
    /\ last.op = "Close"
    /\ last.err = ErrNone
    /\ ~j.f
    /\ Len(disk) = MaxLines
    /\ NumStored(j) = Len(disk)
    /\ j.saveBuffer = <<>>

====
